---- MODULE Spec2Model ----
(***************************************************************************)
(* Model of MacEnvManager (src/configkeys.py): the persisted edits of the  *)
(* shell configuration file made by set_env_var and remove_env_var, with   *)
(* the backup copy each of them takes first.                               *)
(*                                                                         *)
(* A file is a sequence of characters.  A character is a one-character     *)
(* string, except that the two literals the code matches as a whole are    *)
(* written as one symbol each: EXPORT stands for the seven characters      *)
(* "export " and MARKER for the text "# Added by ConfigureMacKeys".        *)
(***************************************************************************)
EXTENDS Integers, Sequences, FiniteSets, TLC

VARIABLES
    cfg,    \* the primary config file: [exists, data]
    bak,    \* the backup file <primary>.backup: [exists, data]
    op,     \* the last invocation: [kind, name, value]
    ret,    \* what the last invocation returned
    log,    \* the messages the last invocation printed
    procs   \* the invocations in progress: [pc, call, lines, ret] each

vars == <<cfg, bak, op, ret, log, procs>>

\* ------------------------------------------------------------- characters

EXPORT == "export "
MARKER == "# Added by ConfigureMacKeys"
EQ == "="
SP == " "
NL == "\n"
CR == "\r"

\* str.strip() removes these from both ends.
Whitespace == {SP, NL, CR, "\t"}

\* ------------------------------------------------------------ bounds, inputs

\* The most lines the config file holds before the first invocation.
MaxLines == 2

\* The most lines of the initial file when two invocations race.
MaxRaceLines == 2

Names == {<<"A">>, <<"B">>}
Values == {<<>>, <<"1">>}

\* What a line of the initial file may hold, before its terminator.
LineBodies ==
    { <<EXPORT, "A", EQ, "1">>,
      <<SP, EXPORT, "A", EQ, "2">>,
      <<MARKER>>,
      <<"x">>,
      <<"x", CR>> }

Terminators == {<<NL>>}

\* The last line of a file may lack its terminator.
LastTerminators == Terminators \cup {<<>>}

RECURSIVE FilesOf(_)
FilesOf(n) ==
    IF n = 0 THEN {<<>>}
    ELSE {<<>>} \cup
         { b \o t \o rest : b \in LineBodies, t \in Terminators,
                            rest \in FilesOf(n - 1) \ {<<>>} } \cup
         { b \o t : b \in LineBodies, t \in LastTerminators }

InitialFiles == FilesOf(MaxLines)
RaceFiles == FilesOf(MaxRaceLines)

Absent == [exists |-> FALSE, data |-> <<>>]
File(d) == [exists |-> TRUE, data |-> d]

\* ------------------------------------------------------------ text helpers

Range(s) == {s[i] : i \in 1..Len(s)}

RECURSIVE Concat(_)
Concat(ls) == IF ls = <<>> THEN <<>> ELSE Head(ls) \o Concat(Tail(ls))

StartsWith(s, p) == Len(s) >= Len(p) /\ SubSeq(s, 1, Len(p)) = p

RECURSIVE LStrip(_)
LStrip(s) ==
    IF s # <<>> /\ Head(s) \in Whitespace THEN LStrip(Tail(s)) ELSE s

RECURSIVE RStrip(_)
RStrip(s) ==
    IF s # <<>> /\ s[Len(s)] \in Whitespace
    THEN RStrip(SubSeq(s, 1, Len(s) - 1)) ELSE s

\* line.strip()
Strip(s) == RStrip(LStrip(s))

\* Text-mode reading (newline=None): "\r\n" and "\r" both arrive as "\n".
RECURSIVE TranslateFrom(_, _)
TranslateFrom(s, i) ==
    IF i > Len(s) THEN <<>>
    ELSE IF s[i] = CR
         THEN <<NL>> \o TranslateFrom(s, IF i < Len(s) /\ s[i + 1] = NL
                                         THEN i + 2 ELSE i + 1)
         ELSE <<s[i]>> \o TranslateFrom(s, i + 1)

Translate(s) == IF CR \in Range(s) THEN TranslateFrom(s, 1) ELSE s

\* Where the line of s that starts at i ends: at its "\n", or at the end of s.
RECURSIVE LineEnd(_, _)
LineEnd(s, i) == IF i >= Len(s) \/ s[i] = NL THEN i ELSE LineEnd(s, i + 1)

\* The lines of s from i on, each with its "\n"; the last one may lack it.
RECURSIVE SplitFrom(_, _)
SplitFrom(s, i) ==
    IF i > Len(s) THEN <<>>
    ELSE LET e == LineEnd(s, i)
         IN  <<SubSeq(s, i, e)>> \o SplitFrom(s, e + 1)

SplitLines(s) == SplitFrom(s, 1)

\* f.readlines() on a file opened with open(config_file, 'r')
ReadLines(data) == SplitLines(Translate(data))

\* f.writelines(lines) on a file opened with open(config_file, 'w'): the
\* items one after the other, no separator added ("\n" is written as
\* os.linesep, which is "\n" on macOS).
WriteLines(lines) == Concat(lines)

\* ------------------------------------------------------------ the patcher

\* pattern = f"export {name}="
Pattern(name) == <<EXPORT>> \o name \o <<EQ>>

\* export_line = f"export {name}={value}\n"
ExportLine(name, value) == <<EXPORT>> \o name \o <<EQ>> \o value \o <<NL>>

\* line.strip().startswith(pattern)
Matches(line, name) == StartsWith(Strip(line), Pattern(name))

\* A filter that drops the first matching line only.
RECURSIVE RemoveFirstEntry(_, _)
RemoveFirstEntry(lines, name) ==
    IF lines = <<>> THEN <<>>
    ELSE IF Matches(Head(lines), name) THEN Tail(lines)
    ELSE <<Head(lines)>> \o RemoveFirstEntry(Tail(lines), name)

\* [line for line in lines if not line.strip().startswith(pattern)]
RemoveEntries(lines, name) == SelectSeq(lines, LAMBDA l : ~Matches(l, name))

\* A marker test that never finds the marker.
NeverMarked(lines) == FALSE

\* any("# Added by ConfigureMacKeys" in line for line in lines)
HasMarker(lines) == \E i \in 1..Len(lines) : MARKER \in Range(lines[i])

\* The one list item f"\n{comment_line}".
CommentItem == <<NL, MARKER, NL>>

\* The list set_env_var writes, from the list it read.
SetLines(lines, name, value) ==
    LET kept == RemoveEntries(lines, name)
        marked == IF HasMarker(kept) THEN kept ELSE Append(kept, CommentItem)
    IN  Append(marked, ExportLine(name, value))


\* The whole text set_env_var writes, from the lines it read.
SetData(lines, name, value) == WriteLines(SetLines(lines, name, value))

\* The whole text remove_env_var writes, from the lines it read.
RemoveData(lines, name) == WriteLines(RemoveEntries(lines, name))

\* ------------------------------------------------------------ I/O steps

\* get_shell_config_content(): the lines read and what it printed.
\* rd = FALSE: open() or readlines() raises on the existing file.
ReadResult(rd) ==
    IF ~cfg.exists THEN [lines |-> <<>>, msgs |-> {}]
    ELSE IF rd THEN [lines |-> ReadLines(cfg.data), msgs |-> {}]
    ELSE [lines |-> <<>>, msgs |-> {"Error reading"}]

\* A copy that does not overwrite a backup already there.
BackupKeepFirst(cp) ==
    IF ~cfg.exists THEN [bak |-> bak, msgs |-> {}]
    ELSE [bak |-> IF bak.exists THEN bak ELSE File(cfg.data),
          msgs |-> {"Backup created"}]

\* backup_config_file(), with the caller's warning: cp runs only when the
\* file exists.  cp = FALSE: cp fails, the caller warns and goes on.
BackupResult(cp) ==
    IF ~cfg.exists THEN [bak |-> bak, msgs |-> {}]
    ELSE IF cp THEN [bak |-> File(cfg.data), msgs |-> {"Backup created"}]
    ELSE [bak |-> bak,
          msgs |-> {"Error creating backup", "Warning: Could not create backup"}]

\* The outcomes of open(config_file, 'w'), writelines and close:
\*   "ok"       everything is written;
\*   "denied"   mkdir or open raises: the file is not touched;
\*   "partial"  open has truncated the file and the write raises after n
\*              characters.
WriteOutcomes(data, faulty) ==
    IF faulty
    THEN {[kind |-> "ok", n |-> Len(data)], [kind |-> "denied", n |-> 0]} \cup
         {[kind |-> "partial", n |-> k] : k \in 0..(Len(data) - 1)}
    ELSE {[kind |-> "ok", n |-> Len(data)]}

WriteResult(data, wr) ==
    IF wr.kind = "denied" THEN [cfg |-> cfg, ok |-> FALSE]
    ELSE [cfg |-> File(SubSeq(data, 1, wr.n)), ok |-> wr.kind = "ok"]

\* ------------------------------------------------------------ operations

Call(kind, name, value) == [kind |-> kind, name |-> name, value |-> value]

NoCall == Call("none", <<>>, <<>>)

\* set_env_var(name, value, permanent), lines 79-91: the two early returns.
SetEnvVarEarly(name, value, permanent) ==
    /\ name = <<>> \/ ~permanent
    /\ op' = Call("set", name, value)
    /\ ret' = (name # <<>>)
    /\ log' = IF name = <<>> THEN {"Error: Variable name cannot be empty"}
              ELSE {"To set in your current session"}
    /\ UNCHANGED <<cfg, bak, procs>>

\* set_env_var(name, value), lines 93-131.  rd, cp: reading and the backup
\* copy succeed; faulty: the write may fail.
SetEnvVar(name, value, rd, cp, faulty) ==
    LET r == ReadResult(rd)
        b == BackupResult(cp)
        data == SetData(r.lines, name, value)
    IN  /\ name # <<>>
        /\ \E wr \in WriteOutcomes(data, faulty) :
              LET w == WriteResult(data, wr)
              IN  /\ cfg' = w.cfg
                  /\ ret' = w.ok
                  /\ log' = r.msgs \cup b.msgs \cup
                            (IF w.ok THEN {"Added"} ELSE {"Error writing"})
        /\ op' = Call("set", name, value)
        /\ bak' = b.bak
        /\ UNCHANGED procs

\* Which way remove_env_var goes on the lines it read: the early return of
\* lines 137-139, the one of lines 151-153, or the rewrite.
RemoveCase(lines, name) ==
    IF lines = <<>> THEN "no file"
    ELSE IF Len(RemoveEntries(lines, name)) = Len(lines) THEN "not found"
    ELSE "rewrite"

\* A backup taken only once a matching line is found.
BackupOnlyIfFound(case) == case = "rewrite"

\* Line 142 comes after the first early return and before the second.
BackupTaken(case) == case # "no file"

\* Lines 156-157 come after both early returns.
Rewrites(case) == case = "rewrite"

\* A removal that writes the filtered lines before it compares the counts.
RemoveEnvVarEager(name, rd, cp, faulty, inEnv) ==
    LET r == ReadResult(rd)
        case == RemoveCase(r.lines, name)
    IN  /\ op' = Call("remove", name, <<>>)
        /\ bak' = IF case = "no file" THEN bak ELSE BackupResult(cp).bak
        /\ cfg' = IF case = "no file" THEN cfg
                  ELSE File(RemoveData(r.lines, name))
        /\ ret' = (case = "rewrite")
        /\ log' = IF case = "no file" THEN {"No configuration file found"}
                  ELSE BackupResult(cp).msgs \cup
                       (IF case = "rewrite" THEN {"Removed"}
                        ELSE {"Variable not found"})
        /\ UNCHANGED procs

\* remove_env_var(name), lines 133-171.  inEnv: name is in os.environ.
RemoveEnvVar(name, rd, cp, faulty, inEnv) ==
    LET r == ReadResult(rd)
        b == BackupResult(cp)
        case == RemoveCase(r.lines, name)
        data == RemoveData(r.lines, name)
    IN  /\ op' = Call("remove", name, <<>>)
        /\ bak' = IF BackupTaken(case) THEN b.bak ELSE bak
        /\ IF Rewrites(case)
           THEN \E wr \in WriteOutcomes(data, faulty) :
                  LET w == WriteResult(data, wr)
                  IN  /\ cfg' = w.cfg
                      /\ ret' = w.ok
                      /\ log' = r.msgs \cup b.msgs \cup
                            (IF ~w.ok THEN {"Error writing"}
                             ELSE IF inEnv
                             THEN {"Removed", "Removed from current session"}
                             ELSE {"Removed"})
           ELSE /\ cfg' = cfg
                /\ ret' = FALSE
                /\ log' = r.msgs \cup
                          (IF BackupTaken(case)
                           THEN b.msgs \cup {"Variable not found"}
                           ELSE {"No configuration file found"})
        /\ UNCHANGED procs

\* ------------------------------------------------------------ two invocations at once

Procs == {1, 2}

Idle == [pc |-> "idle", call |-> NoCall, lines |-> <<>>, ret |-> FALSE]

Started(c) == [pc |-> "read", call |-> c, lines |-> <<>>, ret |-> FALSE]

\* Lines 94 and 135: the invocation reads the file.
RaceRead(p) ==
    LET me == procs[p]
        lines == ReadResult(TRUE).lines
    IN  /\ me.pc = "read"
        /\ procs' = [procs EXCEPT ![p] =
              IF me.call.kind = "remove"
                 /\ ~BackupTaken(RemoveCase(lines, me.call.name))
              THEN [me EXCEPT !.pc = "done"]
              ELSE [me EXCEPT !.pc = "backup", !.lines = lines]]
        /\ UNCHANGED <<cfg, bak, op, ret, log>>

\* Lines 97 and 142: the invocation copies the file as it is now.
RaceBackup(p) ==
    LET me == procs[p]
    IN  /\ me.pc = "backup"
        /\ bak' = BackupResult(TRUE).bak
        /\ procs' = [procs EXCEPT ![p] =
              IF me.call.kind = "remove"
                 /\ ~Rewrites(RemoveCase(me.lines, me.call.name))
              THEN [me EXCEPT !.pc = "done"]
              ELSE [me EXCEPT !.pc = "write"]]
        /\ UNCHANGED <<cfg, op, ret, log>>

\* A write computed from the file as it is when the write is made.
PendingFresh(me) ==
    IF me.call.kind = "set"
    THEN SetData(ReadResult(TRUE).lines, me.call.name, me.call.value)
    ELSE RemoveData(ReadResult(TRUE).lines, me.call.name)

\* What the invocation writes, from the lines it read.
Pending(me) ==
    IF me.call.kind = "set"
    THEN SetData(me.lines, me.call.name, me.call.value)
    ELSE RemoveData(me.lines, me.call.name)

\* Lines 118-119 and 156-157: the invocation writes the file.
RaceWrite(p) ==
    LET me == procs[p]
    IN  /\ me.pc = "write"
        /\ cfg' = File(Pending(me))
        /\ procs' = [procs EXCEPT ![p] = [me EXCEPT !.pc = "done", !.ret = TRUE]]
        /\ UNCHANGED <<bak, op, ret, log>>

\* ------------------------------------------------------------ specifications

InitOn(files) ==
    /\ cfg \in {Absent} \cup {File(d) : d \in files}
    /\ bak = Absent
    /\ op = NoCall
    /\ ret = FALSE
    /\ log = {}
    /\ procs = [p \in Procs |-> Idle]

Init == InitOn(InitialFiles)

\* Invocations one after the other; every read, copy and write succeeds.
Set ==
    \E name \in Names, value \in Values :
        SetEnvVar(name, value, TRUE, TRUE, FALSE)

SetEarly ==
    \E name \in Names \cup {<<>>}, permanent \in BOOLEAN :
        SetEnvVarEarly(name, <<"1">>, permanent)

Remove ==
    \E name \in Names, inEnv \in BOOLEAN :
        RemoveEnvVar(name, TRUE, TRUE, FALSE, inEnv)

Next == Set \/ SetEarly \/ Remove

Spec == Init /\ [][Next]_vars

\* The same from a file the tool has not touched yet.
InitFresh == InitOn({d \in InitialFiles : MARKER \notin Range(d)})

SpecFresh == InitFresh /\ [][Next]_vars

\* One invocation on a file that holds something.
InitHeld == InitOn(InitialFiles \ {<<>>}) /\ cfg.exists

\* The invocation's read of the file may fail, and its backup copy.
SetReadFault ==
    \E name \in Names, value \in Values, rd \in BOOLEAN, cp \in BOOLEAN :
        op = NoCall /\ SetEnvVar(name, value, rd, cp, FALSE)

RemoveReadFault ==
    \E name \in Names, rd \in BOOLEAN, cp \in BOOLEAN :
        op = NoCall /\ RemoveEnvVar(name, rd, cp, FALSE, FALSE)

NextReadFault == SetReadFault \/ RemoveReadFault

SpecReadFault == InitHeld /\ [][NextReadFault]_vars

\* The invocation's write of the file may fail, and its backup copy.
SetWriteFault ==
    \E name \in Names, value \in Values, cp \in BOOLEAN :
        op = NoCall /\ SetEnvVar(name, value, TRUE, cp, TRUE)

RemoveWriteFault ==
    \E name \in Names, cp \in BOOLEAN :
        op = NoCall /\ RemoveEnvVar(name, TRUE, cp, TRUE, FALSE)

NextWriteFault == SetWriteFault \/ RemoveWriteFault

SpecWriteFault == InitHeld /\ [][NextWriteFault]_vars

\* Two invocations started together on the same file, their steps interleaved.
RaceCalls ==
    {Call("set", n, <<"1">>) : n \in Names} \cup
    {Call("remove", n, <<>>) : n \in Names}

InitRace ==
    /\ cfg \in {Absent} \cup {File(d) : d \in RaceFiles}
    /\ bak = Absent
    /\ op = NoCall
    /\ ret = FALSE
    /\ log = {}
    /\ procs \in [Procs -> {Started(c) : c \in RaceCalls}]

NextRace == \E p \in Procs : RaceRead(p) \/ RaceBackup(p) \/ RaceWrite(p)

SpecRace == InitRace /\ [][NextRace]_vars

\* ------------------------------------------------------------ what the claims speak of

\* Where the line of s that starts at i ends in the file itself: at "\n",
\* at "\r" or at "\r\n", whichever the file holds.
RECURSIVE RawEnd(_, _)
RawEnd(s, i) ==
    IF i >= Len(s) \/ s[i] = NL THEN i
    ELSE IF s[i] = CR THEN (IF s[i + 1] = NL THEN i + 1 ELSE i)
    ELSE RawEnd(s, i + 1)

RECURSIVE RawFrom(_, _)
RawFrom(s, i) ==
    IF i > Len(s) THEN <<>>
    ELSE LET e == RawEnd(s, i)
         IN  <<SubSeq(s, i, e)>> \o RawFrom(s, e + 1)

\* The lines of a file, each exactly as the file holds it.
RawLines(data) == RawFrom(data, 1)

\* A line whose trimmed content starts with "export <name>=".
IsDecl(line, name) == StartsWith(Strip(line), <<EXPORT>> \o name \o <<EQ>>)

\* The declarations of name among the lines read back from a file.
Decls(data, name) == SelectSeq(ReadLines(data), LAMBDA l : IsDecl(l, name))

\* The text of the lines of a file that are not declarations of name.
OtherText(data, name) ==
    Concat(SelectSeq(RawLines(data), LAMBDA l : ~IsDecl(l, name)))

\* The number of lines read back from a file that hold the marker comment.
MarkerCount(data) ==
    Len(SelectSeq(ReadLines(data), LAMBDA l : MARKER \in Range(l)))

Added == op.kind = "set" /\ "Added" \in log
Removed == op.kind = "remove" /\ "Removed" \in log

\* ------------------------------------------------------------ claims

\* C1: AddOrUpdate(name, v1) and then AddOrUpdate(name, v2), both
\* succeeding, leave exactly one line whose trimmed content starts with
\* "export <name>=", and that line is "export <name>=<v2>".
C1_Idempotence ==
    [][ (Added /\ Added' /\ op'.name = op.name)
        => Decls(cfg'.data, op'.name) = <<ExportLine(op'.name, op'.value)>> ]_vars

\* The second of two additions of A has acted: the backup holds the file the
\* first one left, ending in the declaration with the other value.
C1_Witness ==
    /\ Added /\ op.name = <<"A">> /\ op.value = <<"1">>
    /\ "Backup created" \in log
    /\ Decls(bak.data, <<"A">>) = <<ExportLine(<<"A">>, <<>>)>>
    /\ Decls(cfg.data, <<"A">>) = <<ExportLine(<<"A">>, <<"1">>)>>

\* C2: from a file without the marker comment, the file never holds more
\* than one marker line, holds exactly one after every successful
\* AddOrUpdate, and keeps it through every later call.
C2_MarkerSingularity ==
    /\ [](MarkerCount(cfg.data) <= 1)
    /\ [][ /\ Added' => MarkerCount(cfg'.data) = 1
           /\ MarkerCount(cfg.data) = 1 => MarkerCount(cfg'.data) = 1 ]_vars

\* A Remove after the additions has emptied the file of declarations and the
\* one marker line is still there.
C2_Witness ==
    /\ Removed
    /\ MarkerCount(cfg.data) = 1
    /\ \A n \in Names : Decls(cfg.data, n) = <<>>

\* C3: after a successful AddOrUpdate(name, value) the file read back holds
\* "export name=value" as a whole line exactly once, placed last, and the
\* text of every other pre-existing line is kept verbatim and in order.
C3_RoundTrip ==
    [][ Added' =>
          LET new == ReadLines(cfg'.data)
              line == ExportLine(op'.name, op'.value)
              kept == OtherText(cfg.data, op'.name)
          IN  /\ new # <<>>
              /\ new[Len(new)] = line
              /\ Cardinality({i \in 1..Len(new) : new[i] = line}) = 1
              /\ StartsWith(cfg'.data, kept) ]_vars

\* C4: Remove(name) on a file with at least one declaration of name reports
\* success and leaves no declaration of name, every other line kept
\* verbatim and in order.
C4_RemoveCorrect ==
    [][ (op'.kind = "remove" /\ cfg.exists /\ Decls(cfg.data, op'.name) # <<>>)
        => /\ ret'
           /\ cfg'.exists
           /\ Decls(cfg'.data, op'.name) = <<>>
           /\ cfg'.data = OtherText(cfg.data, op'.name) ]_vars

\* C5: a Remove that reports failure (absent file, zero lines, no matching
\* line) leaves the existence and the content of the config file as they
\* were.
C5_FailedRemoveFrame ==
    [][ (op'.kind = "remove" /\ ~ret') => cfg' = cfg ]_vars

\* A Remove has ended in the not-found outcome on a non-empty file.
C5_Witness ==
    /\ op.kind = "remove" /\ ~ret
    /\ "Variable not found" \in log
    /\ cfg.exists /\ cfg.data # <<>>

\* C6: when reading the existing config file fails, AddOrUpdate reports
\* failure and leaves the file as it was.
C6_ReadFailureAborts ==
    [][ (op'.kind = "set" /\ "Error reading" \in log')
        => (~ret' /\ cfg' = cfg) ]_vars

\* C7: when the write fails, the operation reports failure, the config file
\* holds its complete earlier content and the backup just made is in place.
C7_WriteFailureKeepsFile ==
    [][ "Error writing" \in log'
        => /\ ~ret'
           /\ cfg' = cfg
           /\ "Backup created" \in log' => bak' = File(cfg.data) ]_vars

\* C8: after a call that rewrites the config file, if the file existed and
\* the copy succeeded, the backup holds exactly what the config file held
\* right before the call.
C8_BackupIsPreImage ==
    [][ ((Added' \/ Removed') /\ cfg.exists /\ "Backup created" \in log')
        => bak' = File(cfg.data) ]_vars

\* An addition has rewritten an existing file: the backup, replaced once
\* already, holds the earlier text, which differs from the new one.
C8_Witness ==
    /\ Added /\ "Backup created" \in log
    /\ bak.exists /\ bak.data # cfg.data
    /\ Decls(bak.data, <<"B">>) # <<>>

\* What an invocation computes from the lines it read.
Computed(me) ==
    IF me.call.kind = "set"
    THEN Concat(SetLines(me.lines, me.call.name, me.call.value))
    ELSE Concat(RemoveEntries(me.lines, me.call.name))

\* C9: once two concurrent invocations have both written, the file holds
\* what one of them computed from the content it had read.
C9_LastWriterWins ==
    (\A p \in Procs : procs[p].pc = "done" /\ procs[p].ret)
        => \E p \in Procs : cfg.data = Computed(procs[p])

\* Two concurrent additions of A and B have both reported success and the
\* file declares B only: the addition of A is lost.
C9_Witness ==
    /\ \A p \in Procs : procs[p].pc = "done" /\ procs[p].ret
    /\ procs[1].call = Call("set", <<"A">>, <<"1">>)
    /\ procs[2].call = Call("set", <<"B">>, <<"1">>)
    /\ Decls(cfg.data, <<"B">>) # <<>>
    /\ Decls(cfg.data, <<"A">>) = <<>>

\* C10: Remove runs the backup copy exactly when the config file exists with
\* at least one line; then the backup holds the file's content, also when
\* the call ends not-found; otherwise the backup is left as it was.
C10_RemoveBackup ==
    [][ op'.kind = "remove" =>
          LET copied == "Backup created" \in log'
          IN  /\ copied <=> (cfg.exists /\ ReadLines(cfg.data) # <<>>)
              /\ copied => bak' = File(cfg.data)
              /\ ~copied => bak' = bak ]_vars

\* A Remove has ended not-found and the backup is a copy of the file, not
\* the empty backup that was there before.
C10_Witness ==
    /\ op.kind = "remove" /\ "Variable not found" \in log
    /\ "Backup created" \in log
    /\ bak = cfg /\ cfg.data # <<>>

====
